---------------------------- MODULE Spec2Model ----------------------------
(***************************************************************************)
(* The background-job and event-multiplexing core of gitui:                *)
(*   - SyntaxTextComponent (src/src/components/syntax_text.rs): the file   *)
(*     preview that owns the syntax-highlight job slot;                    *)
(*   - run_app / select_event (src/src/main.rs): the consumer loop and the *)
(*     five-channel multiplexer;                                           *)
(*   - the job slot (asyncgit::asyncjob::AsyncSingleJob), the highlight    *)
(*     job (ui::AsyncSyntaxJob), the Spinner and App, whose code is not    *)
(*     part of the sources at hand: they follow spec.md (sections 3, 4.1,  *)
(*     4.3, 4.5).                                                          *)
(* One loop iteration of run_app is one action.  Workers, the user, the    *)
(* watcher and the ticker are the environment and interleave freely.       *)
(***************************************************************************)
EXTENDS Integers, Sequences, FiniteSets, TLC

(* ------------------------------ bounds -------------------------------- *)

\* load commands the user issues in one run (bounds the jobs ever spawned)
MaxLoads == 2
\* messages waiting in rx_input, in rx_git and in the watcher's channel
MaxQueue == 1
\* progress reports one job body makes before it completes
MaxProgress == 1
\* raw filesystem events in one burst
MaxBurst == 3
\* characters in a text of the text input
MaxText == 3
\* cap of the line counters of the text input
MaxLine == 2
\* the debounce window, in units of time
DebounceWindow == 2
\* the glyphs of the spinner animation
SpinnerChars == <<"|", "/">>

Paths == {"a", "b"}
\* file contents (a tree item stands for the content it reads to)
Texts == {"t1", "t2"}

(* ------------------------------ options ------------------------------- *)

None == << >>
Some(x) == << x >>
IsSome(o) == o # << >>
Unwrap(o) == o[1]

(* --------------------- notifications and events ----------------------- *)

\* main.rs: SyntaxHighlightProgress / AsyncAppNotification
AsyncAppNotification == {"Progress", "Done"}
\* asyncgit/src/lib.rs: AsyncNotification (the repository bus)
AsyncGitNotification ==
    {"FinishUnchanged", "Status", "Diff", "Log", "CommitFiles", "Tags",
     "Push", "PushTags", "Fetch", "Blame", "SyntaxHighlighting"}
\* the repository notifications the environment of this model produces
GitTraffic == {"FinishUnchanged", "Status"}

\* main.rs: AsyncNotification::App / AsyncNotification::Git
AppNote(n) == [bus |-> "App", n |-> n]
GitNote(n) == [bus |-> "Git", n |-> n]

\* what the item of a path reads to in the tree that is browsed
tree_file_content(path) == IF path = "a" THEN "t1" ELSE "t2"

\* what the user can make the application do with the preview
\* (a load carries the number of the command: it names the job generation;
\* reading the item of a path gives its content or fails)
LoadCommands(id) ==
    {cmd \in [op : {"load"}, path : Paths, res : Texts \cup {"err"}, id : {id}] :
        cmd.res \in {tree_file_content(cmd.path), "err"}}
OtherCommands == {[op |-> "clear"], [op |-> "quit"]}
\* the commands of a user who opens one file only
OneFileCommands(id) ==
    {[op |-> "load", path |-> "a", res |-> "t1", id |-> id]} \cup OtherCommands

VARIABLES
    first_update,   \* run_app: let mut first_update
    pc,             \* run_app: "setup" before the loop, "loop" while in it,
                    \* "done" after break, "error" after an error return
    rx_input,       \* channel of input events
    rx_git,         \* channel of repository notifications
    rx_app,         \* channel of application notifications
    rx_notify,      \* watcher signals waiting (unit events)
    rx_spinner,     \* ticks waiting (the ticker channel holds at most one)
    spinner,        \* Spinner: [idx, active]
    app,            \* App: the preview component and the quit flag
    nloads,         \* load commands issued so far
    last_spawned,   \* the generation of the job spawned last (observation only)
    trace,          \* what the latest loop iteration did (observation only)
    watcher,        \* RepoWatcher: the debouncer behind rx_notify
    disconnected,   \* the channels whose senders are all gone
    comp            \* TextInputComponent

\* the state of run_app and of the threads around it
loop_vars == << first_update, pc, rx_input, rx_git, rx_app, rx_notify,
                rx_spinner, spinner, app, nloads, last_spawned, trace,
                watcher, disconnected >>

vars == << first_update, pc, rx_input, rx_git, rx_app, rx_notify, rx_spinner,
           spinner, app, nloads, last_spawned, trace, watcher, disconnected,
           comp >>

(* ----------------------------- job slot ------------------------------- *)

\* AsyncSyntaxJob::new(content, path): the owned input snapshot.  gen numbers
\* the spawns; seen is filled in when the body completes with the path the
\* preview showed at that moment (both are observation only)
NewJob(g, path, text) ==
    [gen |-> g, path |-> path, text |-> text, res |-> "request", seen |-> None]

\* AsyncSyntaxJob::result(): the highlighted text, if the job succeeded
JobResult(job) ==
    IF job.res = "ok"
    THEN Some([path |-> job.path, text |-> job.text, gen |-> job.gen])
    ELSE None

\* AsyncSingleJob::new: the bodies executing on workers, the job waiting for
\* the worker, the unconsumed result, the progress reported last
NewSlot == [running |-> {}, next |-> None, last |-> None, progress |-> 0]

\* an is_pending that stays true until the result is consumed
IsPendingUntilConsumed(s) == s.running # {} \/ s.last # << >>

\* AsyncSingleJob::is_pending
IsPending(s) == s.running # {}

\* AsyncSingleJob::progress
SlotProgress(s) == IF IsPending(s) THEN Some(s.progress) ELSE None

\* take_last that leaves the result in the slot
TakeLastKeeps(s) == s

\* AsyncSingleJob::take_last: the slot after the unconsumed result is removed
TakeLast(s) == [s EXCEPT !.last = None]

\* spawn that starts the body at once beside the one executing
SpawnOverlapping(s, job) ==
    [s EXCEPT !.running = @ \cup {job}, !.next = None, !.last = None,
              !.progress = 0]

\* spawn that is refused while a completed result waits to be consumed
SpawnRefusedWhileUnconsumed(s, job) ==
    IF s.last # << >>
    THEN s
    ELSE IF s.running # {}
         THEN [s EXCEPT !.next = << job >>]
         ELSE [s EXCEPT !.running = {job}, !.next = << >>, !.progress = 0]

\* spawn that keeps the unconsumed result
SpawnKeepsLast(s, job) ==
    IF IsPending(s)
    THEN [s EXCEPT !.next = Some(job)]
    ELSE [s EXCEPT !.running = {job}, !.next = None, !.progress = 0]

\* AsyncSingleJob::spawn: the new job replaces whatever waits, the unconsumed
\* result is discarded, and the body starts at once when none is executing
Spawn(s, job) ==
    IF IsPending(s)
    THEN [s EXCEPT !.next = Some(job), !.last = None]
    ELSE [s EXCEPT !.running = {job}, !.next = None, !.last = None,
                   !.progress = 0]

\* the worker finished the body of job: the result is handed over through
\* the slot, replacing an unconsumed one
Finish(s, job, outcome, seen) ==
    [s EXCEPT !.running = @ \ {job},
              !.last = Some([job EXCEPT !.res = outcome, !.seen = seen])]

\* the worker takes the waiting job
TakeNext(s) ==
    [s EXCEPT !.running = {Unwrap(s.next)}, !.next = None, !.progress = 0]

(* ------------------------ SyntaxTextComponent ------------------------- *)

\* SyntaxTextComponent::new
NewComponent ==
    [current_file |-> None, syntax_progress |-> None,
     async_highlighting |-> NewSlot]

Plain(text) == [kind |-> "plain", text |-> text]
ErrorText == [kind |-> "plain", text |-> "error loading file"]
Highlighted(syntax) == [kind |-> "syntax", syntax |-> syntax]

\* a freshness check that accepts every result
PathMatchesAny(syntax, path) == TRUE

\* the freshness check of update (tree paths carry no redundant separators,
\* so comparing as Path and comparing as String agree)
PathMatches(syntax, path) == syntax.path = path

\* an update that looks at the result before it takes it, and leaves a
\* stale one in the slot
UpdateDoneChecksFirst(c) ==
    LET job == c.async_highlighting.last
    IN  IF /\ job # << >>
           /\ c.current_file # << >>
           /\ JobResult(job[1]) # << >>
           /\ PathMatches(JobResult(job[1])[1], c.current_file[1].path)
        THEN [c EXCEPT !.syntax_progress = << >>,
                       !.async_highlighting.last = << >>,
                       !.current_file =
                           << [path |-> c.current_file[1].path,
                               content |-> Highlighted(JobResult(job[1])[1])] >>]
        ELSE [c EXCEPT !.syntax_progress = << >>]

\* an update that shows a result also when no file is current
UpdateDoneRestores(c) ==
    LET job == c.async_highlighting.last
        c1  == [c EXCEPT !.syntax_progress = << >>,
                         !.async_highlighting.last = << >>]
    IN  IF job # << >> /\ JobResult(job[1]) # << >>
        THEN IF c.current_file = << >>
                \/ PathMatches(JobResult(job[1])[1], c.current_file[1].path)
             THEN [c1 EXCEPT !.current_file =
                      << [path |-> JobResult(job[1])[1].path,
                          content |-> Highlighted(JobResult(job[1])[1])] >>]
             ELSE c1
        ELSE c1

\* update, SyntaxHighlightProgress::Done
UpdateDone(c) ==
    LET job == c.async_highlighting.last
        c1  == [c EXCEPT !.syntax_progress = None,
                         !.async_highlighting = TakeLast(@)]
    IN  IF /\ IsSome(job)
           /\ IsSome(c.current_file)
           /\ IsSome(JobResult(Unwrap(job)))
           /\ PathMatches(Unwrap(JobResult(Unwrap(job))),
                          Unwrap(c.current_file).path)
        THEN [c1 EXCEPT !.current_file =
                 Some([path |-> Unwrap(c.current_file).path,
                       content |-> Highlighted(Unwrap(JobResult(Unwrap(job))))])]
        ELSE c1

\* update, SyntaxHighlightProgress::Progress
UpdateProgress(c) ==
    [c EXCEPT !.syntax_progress = SlotProgress(c.async_highlighting)]

\* SyntaxTextComponent::update
update(c, ev) ==
    IF ev.bus = "App"
    THEN IF ev.n = "Progress" THEN UpdateProgress(c) ELSE UpdateDone(c)
    ELSE c

\* SyntaxTextComponent::any_work_pending
any_work_pending(c) == IsPending(c.async_highlighting)

\* SyntaxTextComponent::clear
clear(c) == [c EXCEPT !.current_file = None]

\* a load_file that reloads whatever is shown
AlreadyLoadedNever(c, path) == FALSE

\* load_file: is the path the one already shown
AlreadyLoaded(c, path) ==
    IF IsSome(c.current_file) THEN Unwrap(c.current_file).path = path ELSE FALSE

\* a load_file that drops the progress shown when the read fails
LoadFileErrorClearsProgress(c, path, res, g) ==
    IF AlreadyLoaded(c, path)
    THEN c
    ELSE IF res # "err"
         THEN [c EXCEPT !.syntax_progress = Some(0),
                        !.async_highlighting = Spawn(@, NewJob(g, path, res)),
                        !.current_file =
                            Some([path |-> path, content |-> Plain(res)])]
         ELSE [c EXCEPT !.syntax_progress = None,
                        !.current_file =
                            Some([path |-> path, content |-> ErrorText])]

\* SyntaxTextComponent::load_file; res is what tree_file_content returns for
\* the item: a content, or "err"; g names the job it may spawn
load_file(c, path, res, g) ==
    IF AlreadyLoaded(c, path)
    THEN c
    ELSE IF res # "err"
         THEN [c EXCEPT !.syntax_progress = Some(0),
                        !.async_highlighting = Spawn(@, NewJob(g, path, res)),
                        !.current_file =
                            Some([path |-> path, content |-> Plain(res)])]
         ELSE [c EXCEPT !.current_file =
                            Some([path |-> path, content |-> ErrorText])]

\* whether load_file spawns a job
LoadSpawns(c, path, res) == ~AlreadyLoaded(c, path) /\ res # "err"

(* -------------------------------- App --------------------------------- *)

NewApp == [preview |-> NewComponent, quit |-> FALSE]

\* App::event: the input reaches the preview as one of its operations
AppEvent(a, cmd) ==
    CASE cmd.op = "load" ->
            [a EXCEPT !.preview = load_file(@, cmd.path, cmd.res, cmd.id)]
      [] cmd.op = "clear" -> [a EXCEPT !.preview = clear(@)]
      [] cmd.op = "quit" -> [a EXCEPT !.quit = TRUE]
      [] OTHER -> a

\* App::update: the full refresh does not touch the preview
AppUpdate(a) == a

\* App::update_async: the notification is passed on to the preview
AppUpdateAsync(a, ev) == [a EXCEPT !.preview = update(@, ev)]

\* App::any_work_pending
AppAnyWorkPending(a) == any_work_pending(a.preview)

\* App::is_quit
is_quit(a) == a.quit

(* ------------------------------ Spinner ------------------------------- *)

NewSpinner == [idx |-> 0, active |-> FALSE]
SpinnerUpdate(s) == [s EXCEPT !.idx = (@ + 1) % Len(SpinnerChars)]
SpinnerSetState(s, working) == [s EXCEPT !.active = working]

(* --------------------------- RepoWatcher ------------------------------ *)

\* RepoWatcher::new: raw is the number of raw filesystem events of the burst
\* not yet signalled, quiet the time since the last of them, coalesced the
\* number of raw events the latest signal stood for (observation only)
NewWatcher == [state |-> "watching", raw |-> 0, quiet |-> 0, coalesced |-> 0]

\* a raw filesystem event: the deadline is reset to now + debounce_window
RawEvent(w) == [w EXCEPT !.raw = @ + 1, !.quiet = 0]

\* a unit of time without a raw event
Quiet(w) == [w EXCEPT !.quiet = @ + 1]

\* a watcher that signals on the first raw event (leading edge)
DeadlineReachedAtOnce(w) == w.raw > 0

\* the deadline is reached with no intervening reset
DeadlineReached(w) == w.raw > 0 /\ w.quiet = DebounceWindow

\* the timer fires the signal: the burst is over
Fired(w) == [w EXCEPT !.raw = 0, !.quiet = 0, !.coalesced = w.raw]

(* ------------------------ TextInputComponent -------------------------- *)

\* the characters a text is made of: "a" and the newline take one byte in
\* UTF-8, "E" stands for a character of two bytes (such as e-acute)
Chars == {"a", "\n", "E"}
\* char::len_utf8
len_utf8(ch) == IF ch = "E" THEN 2 ELSE 1

\* the texts, as sequences of characters
Msgs == UNION {[1..n -> Chars] : n \in 0..MaxText}

InputTypes == {"Singleline", "Multiline", "Password"}
\* the heights of the terminal the component is drawn on
FrameHeights == {4}

\* usize::saturating_sub
saturating_sub(a, b) == IF a > b THEN a - b ELSE 0

\* String::len: the length in bytes
RECURSIVE ByteLen(_)
ByteLen(msg) ==
    IF msg = << >> THEN 0 ELSE len_utf8(Head(msg)) + ByteLen(Tail(msg))

\* str::is_char_boundary: the byte index is the start of a character or the
\* end of the text
is_char_boundary(msg, index) ==
    \E k \in 0..Len(msg) : ByteLen(SubSeq(msg, 1, k)) = index

\* msg.chars().nth(i): the character with that number, counted in characters
nth(msg, i) == IF i < Len(msg) THEN Some(msg[i + 1]) ELSE None

\* msg.chars().filter(|x| *x == '\n').count()
Newlines(msg) == Cardinality({k \in 1..Len(msg) : msg[k] = "\n"})

\* TextInputComponent::new
NewTextInput ==
    [msg |-> << >>, visible |-> FALSE, cursor_position |-> 0,
     input_type |-> "Multiline", area_height |-> 0, scroll_top |-> 0,
     cur_line |-> 0, scroll_max |-> 0, frame_height |-> 0, log |-> "none"]

\* TextInputComponent::with_input_type
with_input_type(c, input_type) == [c EXCEPT !.input_type = input_type]

\* TextInputComponent::log: appends a line to foo.txt; the model keeps the
\* action named in the last line
log(c, method) == [c EXCEPT !.log = method]

\* TextInputComponent::incr_cursor_multiline
incr_cursor_multiline(c) ==
    LET c1 == [c EXCEPT !.cur_line = @ + 1]
        c2 == IF saturating_sub(c1.cur_line, c1.scroll_top)
                    > saturating_sub(c1.frame_height, 3)
              THEN [log(c1, "bugger") EXCEPT !.scroll_top = @ + 1]
              ELSE c1
    IN  log(IF nth(c.msg, c.cursor_position) = Some("\n") THEN c2 ELSE c,
            "incr_cursor_multiline")

\* next_char_position, the while loop: the next index that is a character
\* boundary or the end
RECURSIVE SkipForward(_, _)
SkipForward(msg, index) ==
    IF index < ByteLen(msg) /\ ~is_char_boundary(msg, index)
    THEN SkipForward(msg, index + 1)
    ELSE index

\* TextInputComponent::next_char_position
next_char_position(c) ==
    IF c.cursor_position >= ByteLen(c.msg)
    THEN None
    ELSE Some(SkipForward(c.msg, c.cursor_position + 1))

\* TextInputComponent::incr_cursor
incr_cursor(c) ==
    LET pos == next_char_position(c)
        c1  == IF c.input_type = "Multiline"
               THEN incr_cursor_multiline(c) ELSE c
    IN  log(IF IsSome(pos)
            THEN [c1 EXCEPT !.cursor_position = Unwrap(pos)]
            ELSE c,
            "incr_cursor")

\* TextInputComponent::decr_cursor_multiline
decr_cursor_multiline(c, index) ==
    LET c1 == [c EXCEPT !.cur_line = saturating_sub(@, 1)]
        c2 == IF c1.cur_line < c1.scroll_top
              THEN [c1 EXCEPT !.scroll_top = saturating_sub(@, 1)]
              ELSE c1
    IN  log(IF nth(c.msg, index) = Some("\n") THEN c2 ELSE c,
            "decr_cursor_multiline")

\* decr_cursor, the while loop: the index itself or the nearest character
\* boundary before it
RECURSIVE SkipBack(_, _)
SkipBack(msg, index) ==
    IF index > 0 /\ ~is_char_boundary(msg, index)
    THEN SkipBack(msg, index - 1)
    ELSE index

\* TextInputComponent::decr_cursor
decr_cursor(c) ==
    LET index == SkipBack(c.msg, saturating_sub(c.cursor_position, 1))
        c1    == [c EXCEPT !.cursor_position = index]
    IN  log(IF c.input_type = "Multiline"
            THEN decr_cursor_multiline(c1, index) ELSE c1,
            "decr_cursor")

\* msg.ends_with('\n')
ends_with_newline(msg) == msg # << >> /\ msg[Len(msg)] = "\n"

\* line_up_cursor, the loop over msg.chars().enumerate() from character i
\* on: the newlines seen last, as top_line, middle_line and bottom_line, and
\* what the loop makes of them in the iteration it breaks in
RECURSIVE LineUpScan(_, _, _, _)
LineUpScan(msg, cursor, i, st) ==
    IF i >= Len(msg)
    THEN st
    ELSE LET c   == msg[i + 1]
             st1 == IF c = "\n"
                    THEN [top_line |-> st.middle_line,
                          middle_line |-> st.bottom_line,
                          bottom_line |-> i]
                    ELSE st
             up  == [st1 EXCEPT !.top_line = st1.middle_line,
                                !.middle_line = st1.bottom_line]
         IN  IF i >= cursor \/ i = saturating_sub(ByteLen(msg), 1)
             THEN IF c # "\n" /\ ~ends_with_newline(msg) /\ i > st1.bottom_line
                  THEN [up EXCEPT !.bottom_line = ByteLen(msg) - 1]
                  ELSE IF c = "\n" /\ i = ByteLen(msg) - 1
                  THEN up
                  ELSE IF /\ nth(msg, st1.top_line) = Some("\n")
                          /\ nth(msg, st1.middle_line) = Some("\n")
                          /\ st1.bottom_line # cursor
                  THEN up
                  ELSE IF st1.top_line = 0
                  THEN up
                  ELSE st1
             ELSE LineUpScan(msg, cursor, i + 1, st1)

\* line_up_cursor, the while loop: the index itself or the next character
\* boundary (beyond the end of the text there is none and the loop does not
\* end: the index is left where it is)
RECURSIVE SkipToBoundary(_, _)
SkipToBoundary(msg, index) ==
    IF index < ByteLen(msg) /\ ~is_char_boundary(msg, index)
    THEN SkipToBoundary(msg, index + 1)
    ELSE index

\* TextInputComponent::line_up_cursor
line_up_cursor(c) ==
    LET st  == LineUpScan(c.msg, c.cursor_position, 0,
                          [top_line |-> 0, middle_line |-> 0,
                           bottom_line |-> 0])
        in_line == saturating_sub(c.cursor_position, st.middle_line)
        pos == IF /\ saturating_sub(st.middle_line, st.top_line) = 1
                  /\ c.cursor_position # st.middle_line
               THEN st.middle_line
               ELSE IF st.top_line = 0
                    THEN saturating_sub(st.top_line + in_line, 1)
                    ELSE st.top_line + in_line
        c1  == [log(c, "lineup") EXCEPT
                   !.cursor_position = SkipToBoundary(c.msg, pos),
                   !.cur_line = saturating_sub(@, 1)]
        c2  == IF c1.cur_line < c1.scroll_top
               THEN [c1 EXCEPT !.scroll_top = saturating_sub(@, 1)]
               ELSE c1
    IN  log(c2, "line_up_cursor")

\* line_down_cursor, the loop over msg.chars().enumerate() from character i
\* on: the starts of the lines seen and the newlines counted at or after the
\* cursor (the loop breaks at the second)
RECURSIVE LineDownScan(_, _, _, _)
LineDownScan(msg, cursor, i, st) ==
    IF i >= Len(msg)
    THEN st
    ELSE LET st1 == IF msg[i + 1] = "\n"
                    THEN [top_line_start |-> st.middle_line_start,
                          middle_line_start |-> st.bottom_line_start,
                          bottom_line_start |-> i,
                          drop_count |-> IF i >= cursor
                                         THEN st.drop_count + 1
                                         ELSE st.drop_count]
                    ELSE st
         IN  IF st1.drop_count = 2
             THEN st1
             ELSE LineDownScan(msg, cursor, i + 1, st1)

\* TextInputComponent::line_down_cursor
line_down_cursor(c) ==
    LET st  == LineDownScan(c.msg, c.cursor_position, 0,
                            [top_line_start |-> 0, middle_line_start |-> 0,
                             bottom_line_start |-> 0, drop_count |-> 0])
        pos == st.middle_line_start
                   + saturating_sub(c.cursor_position, st.top_line_start)
        c1  == [log(c, "linedown") EXCEPT
                   !.cursor_position =
                       IF pos < ByteLen(c.msg)
                       THEN SkipForward(c.msg, pos)
                       ELSE saturating_sub(ByteLen(c.msg), 1)]
        c2  == [c1 EXCEPT !.cur_line = @ + 1]
        c3  == IF c2.cur_line
                     > c2.scroll_top + saturating_sub(c2.area_height, 3)
               THEN [c2 EXCEPT !.scroll_top = @ + 1]
               ELSE c2
    IN  log(IF c1.cur_line < saturating_sub(c1.scroll_max, 2) THEN c3 ELSE c1,
            "line_down_cursor")

\* str::split('\n'): the pieces between the newlines (one more than there
\* are newlines)
RECURSIVE Split(_)
Split(str) ==
    IF \A k \in 1..Len(str) : str[k] # "\n"
    THEN << str >>
    ELSE LET k == CHOOSE j \in 1..Len(str) :
                      /\ str[j] = "\n"
                      /\ \A h \in 1..(j - 1) : str[h] # "\n"
         IN  << SubSeq(str, 1, k - 1) >> \o Split(SubSeq(str, k + 1, Len(str)))

\* Iterator::skip(n)
Skip(seq, n) == SubSeq(seq, n + 1, Len(seq))

\* intersperse("\n").collect()
RECURSIVE Join(_)
Join(pieces) ==
    IF pieces = << >> THEN << >>
    ELSE IF Len(pieces) = 1 THEN pieces[1]
    ELSE pieces[1] \o << "\n" >> \o Join(Tail(pieces))

\* str::lines: the pieces without the empty one after a final newline, each
\* without a carriage return at its end (as tests::test_visualize_newline
\* expects: the line after the return sign starts with an empty span)
Lines(str) ==
    LET pieces == Split(str)
        kept   == IF pieces[Len(pieces)] = << >>
                  THEN SubSeq(pieces, 1, Len(pieces) - 1)
                  ELSE pieces
        strip(piece) == IF piece # << >> /\ piece[Len(piece)] = "\r"
                        THEN SubSeq(piece, 1, Len(piece) - 1)
                        ELSE piece
    IN  [k \in 1..Len(kept) |-> strip(kept[k])]

\* tui Text::styled: one line of one span for every line of the content
TextStyled(str, style) ==
    [k \in 1..Len(Lines(str)) |->
        << [content |-> Lines(str)[k], style |-> style] >>]

\* self.theme.text(true, false)
StyleText == [text |-> "enabled", underlined |-> FALSE]
\* style.add_modifier(Modifier::UNDERLINED)
StyleCursor == [text |-> "enabled", underlined |-> TRUE]
\* self.theme.text(false, false).add_modifier(Modifier::UNDERLINED)
StyleSubstitute == [text |-> "disabled", underlined |-> TRUE]

\* text_append: the first line of `append` goes on the last line of `txt`
text_append(txt, append) ==
    IF txt = << >>
    THEN append
    ELSE IF append = << >>
         THEN txt
         ELSE SubSeq(txt, 1, Len(txt) - 1)
                  \o << txt[Len(txt)] \o append[1] >>
                  \o Tail(append)

\* the characters of msg that start in the byte range from..to
Slice(msg, from, to) ==
    SelectSeq([k \in 1..Len(msg) |->
                  [ch |-> msg[k], at |-> ByteLen(SubSeq(msg, 1, k - 1))]],
              LAMBDA e : from <= e.at /\ e.at < to)

\* TextInputComponent::get_msg: the bytes of the range, one star for each
\* byte in a password input; slicing the text off a character boundary panics
get_msg(c, from, to) ==
    IF c.input_type = "Password"
    THEN [k \in 1..(to - from) |-> "*"]
    ELSE IF is_char_boundary(c.msg, from) /\ is_char_boundary(c.msg, to)
         THEN LET sl == Slice(c.msg, from, to)
              IN  [k \in 1..Len(sl) |-> sl[k].ch]
         ELSE << "panic" >>

\* the newline under the cursor drawn as the return sign alone
SubstituteNoLineBreak(str) ==
    IF str = << "\n" >> THEN Some(<< "return" >>)
    ELSE IF str = << " " >> THEN Some(<< "dot" >>)
    ELSE None

\* get_draw_text, cursor_highlighting: what is drawn for the character at the
\* cursor: the return sign and a line break for a newline, the middle dot for
\* a blank
Substitute(str) ==
    IF str = << "\n" >> THEN Some(<< "return", "\n", "\r" >>)
    ELSE IF str = << " " >> THEN Some(<< "dot" >>)
    ELSE None

\* TextInputComponent::get_draw_text: the lines of spans drawn, or the panic
\* of get_msg
get_draw_text(c) ==
    LET len    == ByteLen(c.msg)
        pos    == next_char_position(c)
        before == get_msg(c, 0, c.cursor_position)
        cursor_str == IF IsSome(pos)
                      THEN get_msg(c, c.cursor_position, Unwrap(pos))
                      ELSE << " " >>
        after  == IF IsSome(pos) /\ Unwrap(pos) < len
                  THEN get_msg(c, Unwrap(pos), len)
                  ELSE << >>
        text_before_cursor == Join(Skip(Split(before), c.scroll_top))
        txt1   == IF c.cursor_position > 0
                  THEN TextStyled(text_before_cursor, StyleText)
                           \o (IF text_before_cursor # << >>
                                  /\ text_before_cursor[Len(text_before_cursor)] = "\n"
                               THEN << << >> >> ELSE << >>)
                  ELSE << >>
        txt2   == text_append(txt1,
                      IF IsSome(Substitute(cursor_str))
                      THEN TextStyled(Unwrap(Substitute(cursor_str)),
                                      StyleSubstitute)
                      ELSE TextStyled(cursor_str, StyleCursor))
    IN  IF << "panic" >> \in {before, cursor_str, after}
        THEN [panic |-> TRUE, lines |-> << >>]
        ELSE [panic |-> FALSE,
              lines |-> IF IsSome(pos) /\ Unwrap(pos) < len
                        THEN text_append(txt2, TextStyled(after, StyleText))
                        ELSE txt2]

\* TextInputComponent::set_text
set_text(c, msg) == [c EXCEPT !.msg = msg, !.cursor_position = 0]

\* TextInputComponent::show
show(c) == [c EXCEPT !.visible = TRUE]

\* TextInputComponent::draw on a terminal of height h: the area drawn and the
\* height of the frame are remembered
draw(c, h) ==
    IF c.visible
    THEN [c EXCEPT
            !.area_height =
                IF c.input_type = "Multiline"
                THEN IF Newlines(c.msg) + 3 < h THEN Newlines(c.msg) + 3 ELSE h
                ELSE IF 3 < h THEN 3 ELSE h,
            !.frame_height = h]
    ELSE c

\* TextInputComponent::event: the cursor keys
KeyEvent(c, key) ==
    IF ~c.visible
    THEN c
    ELSE CASE key = "Left" -> decr_cursor(c)
           [] key = "Right" -> incr_cursor(c)
           [] key = "Up" /\ c.input_type = "Multiline" -> line_up_cursor(c)
           [] key = "Down" /\ c.input_type = "Multiline" -> line_down_cursor(c)
           [] key = "Home" -> [c EXCEPT !.cursor_position = 0]
           [] key = "End" -> [c EXCEPT !.cursor_position = ByteLen(c.msg)]
           [] OTHER -> c

(* ------------------------------- Init --------------------------------- *)

\* src: where the event came from; event: the event handled; calls: what the iteration called; pulled:
\* what update took from the slot; discarded: the unconsumed result a spawn
\* threw away; pending: any_work_pending() at the end of the iteration; busy:
\* any_work_pending() at the end of the latest iteration on a non-spinner event
NoTrace == [src |-> "none", event |-> [t |-> "none"], calls |-> {},
            pulled |-> None, discarded |-> None,
            pending |-> FALSE, busy |-> FALSE]

Init ==
    /\ first_update = TRUE
    /\ pc = "loop"
    /\ rx_input = << >>
    /\ rx_git = << >>
    /\ rx_app = << >>
    /\ rx_notify = 0
    /\ rx_spinner = 0
    /\ spinner = NewSpinner
    /\ app = NewApp
    /\ nloads = 0
    /\ last_spawned = 0
    /\ trace = NoTrace
    /\ watcher = NewWatcher
    /\ disconnected = {}
    /\ comp = NewTextInput

\* run_app before its channels and its watcher exist
InitSetup ==
    /\ first_update = TRUE
    /\ pc = "setup"
    /\ rx_input = << >>
    /\ rx_git = << >>
    /\ rx_app = << >>
    /\ rx_notify = 0
    /\ rx_spinner = 0
    /\ spinner = NewSpinner
    /\ app = NewApp
    /\ nloads = 0
    /\ last_spawned = 0
    /\ trace = NoTrace
    /\ watcher = NewWatcher
    /\ disconnected = {}
    /\ comp = NewTextInput

\* run_app up to the loop: RepoWatcher::new(..)? either yields the watcher or
\* makes run_app return the error
Setup ==
    /\ pc = "setup"
    /\ \E created \in BOOLEAN :
          IF created
          THEN /\ pc' = "loop"
               /\ watcher' = watcher
          ELSE /\ pc' = "error"
               /\ watcher' = [watcher EXCEPT !.state = "failed"]
    /\ UNCHANGED << first_update, rx_input, rx_git, rx_app, rx_notify,
                    rx_spinner, spinner, app, nloads, last_spawned, trace,
                    disconnected, comp >>

\* main: what the process returns (run_app(..)? hands an error on)
main_result ==
    CASE pc = "error" -> "Err"
      [] pc = "done" -> "Ok"
      [] OTHER -> "running"

(* ---------------------------- environment ----------------------------- *)

\* the channels whose senders live outside run_app (tx_git and tx_app are
\* locals of run_app, the ticker never disconnects)
Disconnectable == {"input", "watcher"}

\* the thread that holds the senders of a channel ends
SenderDropped ==
    /\ pc = "loop"
    /\ \E ch \in Disconnectable \ disconnected :
          disconnected' = disconnected \cup {ch}
    /\ UNCHANGED << first_update, pc, rx_input, rx_git, rx_app, rx_notify,
                    rx_spinner, spinner, app, nloads, last_spawned, trace,
                    watcher, comp >>


\* the input thread sends one of `cmds`, at most `loads` of them loads
UserSendsUpTo(cmds, loads) ==
    /\ pc = "loop"
    /\ "input" \notin disconnected
    /\ Len(rx_input) < MaxQueue
    /\ \E cmd \in cmds :
          /\ cmd.op = "load" => nloads < loads
          /\ rx_input' = Append(rx_input, cmd)
          /\ nloads' = IF cmd.op = "load" THEN nloads + 1 ELSE nloads
    /\ UNCHANGED << first_update, pc, rx_git, rx_app, rx_notify, rx_spinner,
                    spinner, app, last_spawned, trace,
                    watcher, disconnected, comp >>

\* the input thread sends one of `cmds`
UserSends(cmds) == UserSendsUpTo(cmds, MaxLoads)

\* the user moves through the files of the tree, faster than they are
\* highlighted
UserBrowses ==
    UserSendsUpTo({cmd \in LoadCommands(nloads + 1) : cmd.res # "err"},
                  MaxLoads + 1)

\* the user browses any file of the tree
UserInput == UserSends(LoadCommands(nloads + 1) \cup OtherCommands)

\* the user opens and closes one file
UserInputOneFile == UserSends(OneFileCommands(nloads + 1))

\* the debounced watcher sends its signal
WatcherSignal ==
    /\ pc = "loop"
    /\ "watcher" \notin disconnected
    /\ rx_notify < MaxQueue
    /\ rx_notify' = rx_notify + 1
    /\ UNCHANGED << first_update, pc, rx_input, rx_git, rx_app, rx_spinner,
                    spinner, app, nloads, last_spawned, trace,
                    watcher, disconnected, comp >>

\* a repository job notifies
GitNotification ==
    /\ pc = "loop"
    /\ Len(rx_git) < MaxQueue
    /\ \E n \in GitTraffic : rx_git' = Append(rx_git, n)
    /\ UNCHANGED << first_update, pc, rx_input, rx_app, rx_notify, rx_spinner,
                    spinner, app, nloads, last_spawned, trace,
                    watcher, disconnected, comp >>

\* a sender of the repository bus sends any notification its type has
GitNotificationOfAnyKind ==
    /\ pc = "loop"
    /\ Len(rx_git) < MaxQueue
    /\ \E n \in AsyncGitNotification : rx_git' = Append(rx_git, n)
    /\ UNCHANGED << first_update, pc, rx_input, rx_app, rx_notify, rx_spinner,
                    spinner, app, nloads, last_spawned, trace,
                    watcher, disconnected, comp >>

\* tick(SPINNER_INTERVAL): the ticker holds at most one undelivered tick
Tick ==
    /\ pc = "loop"
    /\ rx_spinner = 0
    /\ rx_spinner' = 1
    /\ UNCHANGED << first_update, pc, rx_input, rx_git, rx_app, rx_notify,
                    spinner, app, nloads, last_spawned, trace,
                    watcher, disconnected, comp >>

\* the watcher backend delivers a raw filesystem event
FsEvent ==
    /\ pc = "loop"
    /\ watcher.state = "watching"
    /\ watcher.raw < MaxBurst
    /\ rx_notify < MaxQueue
    /\ watcher' = RawEvent(watcher)
    /\ UNCHANGED << first_update, pc, rx_input, rx_git, rx_app, rx_notify,
                    rx_spinner, spinner, app, nloads, last_spawned, trace,
                    disconnected, comp >>

\* time passes while the debouncer waits for its deadline
QuietTime ==
    /\ pc = "loop"
    /\ watcher.raw > 0
    /\ watcher.quiet < DebounceWindow
    /\ watcher' = Quiet(watcher)
    /\ UNCHANGED << first_update, pc, rx_input, rx_git, rx_app, rx_notify,
                    rx_spinner, spinner, app, nloads, last_spawned, trace,
                    disconnected, comp >>

\* the debouncer's timer fires the signal the consumer loop reads
WatcherFires ==
    /\ pc = "loop"
    /\ "watcher" \notin disconnected
    /\ DeadlineReached(watcher)
    /\ rx_notify' = rx_notify + 1
    /\ watcher' = Fired(watcher)
    /\ UNCHANGED << first_update, pc, rx_input, rx_git, rx_app, rx_spinner,
                    spinner, app, nloads, last_spawned, trace, disconnected, comp >>

(* ------------------------------ workers ------------------------------- *)

\* the executing body reports progress
WorkerProgress ==
    /\ pc = "loop"
    /\ IsPending(app.preview.async_highlighting)
    /\ app.preview.async_highlighting.progress < MaxProgress
    /\ app' = [app EXCEPT !.preview.async_highlighting.progress = @ + 1]
    /\ rx_app' = Append(rx_app, "Progress")
    /\ UNCHANGED << first_update, pc, rx_input, rx_git, rx_notify, rx_spinner,
                    spinner, nloads, last_spawned, trace,
                    watcher, disconnected, comp >>

\* a worker whose body is interrupted: it stops without a result and without
\* a notification
WorkerCompletesSilently(outcomes) ==
    /\ pc = "loop"
    /\ IsPending(app.preview.async_highlighting)
    /\ \E job \in app.preview.async_highlighting.running,
          outcome \in outcomes :
          app' = [app EXCEPT !.preview.async_highlighting.running = @ \ {job}]
    /\ UNCHANGED << first_update, pc, rx_input, rx_git, rx_app, rx_notify,
                    rx_spinner, spinner, nloads, last_spawned, trace,
                    watcher, disconnected, comp >>

\* an executing body completes with one of `outcomes`
WorkerCompletes(outcomes) ==
    /\ pc = "loop"
    /\ IsPending(app.preview.async_highlighting)
    /\ \E job \in app.preview.async_highlighting.running,
          outcome \in outcomes :
          app' = [app EXCEPT !.preview.async_highlighting =
                     Finish(@, job, outcome,
                            IF IsSome(app.preview.current_file)
                            THEN Some(Unwrap(app.preview.current_file).path)
                            ELSE None)]
    /\ rx_app' = Append(rx_app, "Done")
    /\ UNCHANGED << first_update, pc, rx_input, rx_git, rx_notify, rx_spinner,
                    spinner, nloads, last_spawned, trace,
                    watcher, disconnected, comp >>

\* the body completes, with a value or with a failure
WorkerComplete == WorkerCompletes({"ok", "fail"})

\* the body completes with a value
WorkerSucceeds == WorkerCompletes({"ok"})

\* the job that waited behind the finished one starts
WorkerStartNext ==
    /\ pc = "loop"
    /\ ~IsPending(app.preview.async_highlighting)
    /\ IsSome(app.preview.async_highlighting.next)
    /\ app' = [app EXCEPT !.preview.async_highlighting = TakeNext(@)]
    /\ UNCHANGED << first_update, pc, rx_input, rx_git, rx_app, rx_notify,
                    rx_spinner, spinner, nloads, last_spawned, trace,
                    watcher, disconnected, comp >>

(* --------------------------- consumer loop ---------------------------- *)

\* main.rs: QueueEvent
Notify == [t |-> "Notify"]
SpinnerUpdateEvent == [t |-> "SpinnerUpdate"]
AsyncEvent(note) == [t |-> "AsyncEvent", ev |-> note]
InputEvent(cmd) == [t |-> "InputEvent", ev |-> cmd]

\* a loop that waits on the multiplexer in its first iteration too
BootstrapNever(first) == FALSE

\* run_app: whether this iteration synthesizes its event
Bootstrap(first) == first

\* a loop without the short-circuit of the spinner tick
FastPathNever(event) == FALSE

\* run_app: if let QueueEvent::SpinnerUpdate = event
FastPath(event) == event.t = "SpinnerUpdate"

\* a loop that passes every notification on
IsFinishUnchangedNever(note) == FALSE

\* run_app: is the notification withheld from app.update_async
IsFinishUnchanged(note) == note.bus = "Git" /\ note.n = "FinishUnchanged"

\* run_app, match event: the application after the event is handled
\* (QueueEvent::SpinnerUpdate is unreachable here)
HandleEvent(a, event) ==
    CASE event.t = "InputEvent" -> AppEvent(a, event.ev)
      [] event.t = "Notify" -> AppUpdate(a)
      [] event.t = "AsyncEvent" ->
            IF ~IsFinishUnchanged(event.ev)
            THEN AppUpdateAsync(a, event.ev)
            ELSE a
      [] OTHER -> a

\* run_app, match event: the calls the handling makes
HandleCalls(event) ==
    CASE event.t = "InputEvent" -> {"app.event"}
      [] event.t = "Notify" -> {"app.update"}
      [] event.t = "AsyncEvent" ->
            IF ~IsFinishUnchanged(event.ev) THEN {"app.update_async"} ELSE {}
      [] OTHER -> {}

\* a loop that forgets spinner.set_state
BusyAfterForgotten(sp, a) == sp

\* a loop that only ever switches the indicator on
BusyAfterSticky(sp, a) ==
    SpinnerSetState(sp, sp.active \/ AppAnyWorkPending(a))

\* run_app: spinner.set_state(app.any_work_pending()) after the draw
BusyAfter(sp, a) == SpinnerSetState(sp, AppAnyWorkPending(a))

\* a fast path that also recomputes the busy flag
SpinnerTickRecomputes(sp) ==
    SpinnerSetState(SpinnerUpdate(sp), AppAnyWorkPending(app))

\* run_app: spinner.update() on the fast path
SpinnerTick(sp) == SpinnerUpdate(sp)

\* a loop that never breaks
LoopExitNever(a) == "loop"

\* run_app: if app.is_quit() { break } at the end of the iteration
LoopExit(a) == IF is_quit(a) THEN "done" ELSE "loop"

\* the event is a load that spawns a job
EventSpawns(a, event) ==
    /\ event.t = "InputEvent"
    /\ event.ev.op = "load"
    /\ LoadSpawns(a.preview, event.ev.path, event.ev.res)

\* the event makes update pull from the slot
EventPulls(event) ==
    /\ event.t = "AsyncEvent"
    /\ event.ev.bus = "App"
    /\ event.ev.n = "Done"

\* a multiplexer that tags the application bus as the repository bus
SelectEventMistagged(index) ==
    CASE index = 0 -> InputEvent(Head(rx_input))
      [] index = 1 -> AsyncEvent(GitNote(Head(rx_git)))
      [] index = 2 -> AsyncEvent(GitNote(Head(rx_app)))
      [] index = 3 -> Notify
      [] index = 4 -> SpinnerUpdateEvent

\* select_event, match index: the unified event made of the message received
\* from the channel the selection picked
select_event(index) ==
    CASE index = 0 -> InputEvent(Head(rx_input))
      [] index = 1 -> AsyncEvent(GitNote(Head(rx_git)))
      [] index = 2 -> AsyncEvent(AppNote(Head(rx_app)))
      [] index = 3 -> Notify
      [] index = 4 -> SpinnerUpdateEvent

\* run_app: one iteration of the loop on `event`, taken from source `src`
Iteration(src, event) ==
    IF FastPath(event)
    THEN /\ spinner' = SpinnerTick(spinner)
         /\ trace' = [src |-> src, event |-> event,
                      calls |-> {"spinner.update", "spinner.draw"},
                      pulled |-> None, discarded |-> None,
                      pending |-> AppAnyWorkPending(app),
                      busy |-> trace.busy]
         /\ UNCHANGED << app, pc, last_spawned >>
    ELSE LET a1 == HandleEvent(app, event)
             slot == app.preview.async_highlighting
         IN  /\ app' = a1
             /\ last_spawned' = IF EventSpawns(app, event)
                                THEN event.ev.id ELSE last_spawned
             /\ spinner' = BusyAfter(spinner, a1)
             /\ pc' = LoopExit(a1)
             /\ trace' = [src |-> src, event |-> event,
                          calls |-> HandleCalls(event)
                                    \cup {"draw", "spinner.set_state",
                                          "spinner.draw"},
                          pulled |-> IF EventPulls(event)
                                     THEN slot.last ELSE None,
                          discarded |-> IF EventSpawns(app, event)
                                        THEN slot.last ELSE None,
                          pending |-> AppAnyWorkPending(a1),
                          busy |-> AppAnyWorkPending(a1)]

\* the first iteration: QueueEvent::Notify without select_event
IterFirst ==
    /\ pc = "loop"
    /\ Bootstrap(first_update)
    /\ first_update' = FALSE
    /\ Iteration("first", Notify)
    /\ UNCHANGED << rx_input, rx_git, rx_app, rx_notify, rx_spinner, nloads,
                    watcher, disconnected, comp >>

\* select_event, index 0
IterInput ==
    /\ pc = "loop"
    /\ ~Bootstrap(first_update)
    /\ rx_input # << >>
    /\ rx_input' = Tail(rx_input)
    /\ Iteration("input", select_event(0))
    /\ UNCHANGED << first_update, rx_git, rx_app, rx_notify, rx_spinner,
                    nloads,
                    watcher, disconnected, comp >>

\* select_event, index 1
IterGit ==
    /\ pc = "loop"
    /\ ~Bootstrap(first_update)
    /\ rx_git # << >>
    /\ rx_git' = Tail(rx_git)
    /\ Iteration("git", select_event(1))
    /\ UNCHANGED << first_update, rx_input, rx_app, rx_notify, rx_spinner,
                    nloads,
                    watcher, disconnected, comp >>

\* select_event, index 2
IterApp ==
    /\ pc = "loop"
    /\ ~Bootstrap(first_update)
    /\ rx_app # << >>
    /\ rx_app' = Tail(rx_app)
    /\ Iteration("app", select_event(2))
    /\ UNCHANGED << first_update, rx_input, rx_git, rx_notify, rx_spinner,
                    nloads,
                    watcher, disconnected, comp >>

\* a multiplexer that polls the channels in order: the watcher is received
\* from only when no other channel is ready
IterNotifyLowPriority ==
    /\ pc = "loop"
    /\ ~Bootstrap(first_update)
    /\ rx_input = << >> /\ rx_git = << >> /\ rx_app = << >> /\ rx_spinner = 0
    /\ rx_notify > 0
    /\ rx_notify' = rx_notify - 1
    /\ Iteration("watcher", select_event(3))
    /\ UNCHANGED << first_update, rx_input, rx_git, rx_app, rx_spinner,
                    nloads,
                    watcher, disconnected, comp >>

\* select_event, index 3
IterNotify ==
    /\ pc = "loop"
    /\ ~Bootstrap(first_update)
    /\ rx_notify > 0
    /\ rx_notify' = rx_notify - 1
    /\ Iteration("watcher", select_event(3))
    /\ UNCHANGED << first_update, rx_input, rx_git, rx_app, rx_spinner,
                    nloads,
                    watcher, disconnected, comp >>

\* select_event, index 4
IterSpinner ==
    /\ pc = "loop"
    /\ ~Bootstrap(first_update)
    /\ rx_spinner > 0
    /\ rx_spinner' = rx_spinner - 1
    /\ Iteration("spinner", select_event(4))
    /\ UNCHANGED << first_update, rx_input, rx_git, rx_app, rx_notify,
                    nloads,
                    watcher, disconnected, comp >>

\* no message waits in the channel
ChannelEmpty(ch) ==
    CASE ch = "input" -> rx_input = << >>
      [] ch = "git" -> rx_git = << >>
      [] ch = "app" -> rx_app = << >>
      [] ch = "watcher" -> rx_notify = 0
      [] ch = "spinner" -> rx_spinner = 0

\* a loop that goes on after a receive error
RecvErrorIgnored(p) == p

\* run_app: select_event(..)? returned an error: run_app returns it
RecvError(p) == "error"

\* select_event picked a channel that is disconnected and empty: oper.recv
\* returns an error, no event is handled
IterDisconnected ==
    /\ pc = "loop"
    /\ ~Bootstrap(first_update)
    /\ \E ch \in disconnected : ChannelEmpty(ch)
    /\ pc' = RecvError(pc)
    /\ trace' = [trace EXCEPT !.src = "disconnected",
                               !.event = [t |-> "none"], !.calls = {},
                               !.pulled = None, !.discarded = None]
    /\ UNCHANGED << first_update, rx_input, rx_git, rx_app, rx_notify,
                    rx_spinner, spinner, app, nloads, last_spawned, watcher,
                    disconnected, comp >>

\* the loop with a user who opens one file, the repository bus, the ticker
\* and job bodies that report no progress and succeed
Next ==
    \/ UserInputOneFile
    \/ GitNotification
    \/ Tick
    \/ WorkerSucceeds
    \/ WorkerStartNext
    \/ IterFirst
    \/ IterInput
    \/ IterGit
    \/ IterApp
    \/ IterSpinner

Spec == Init /\ [][Next]_vars

\* the preview and its slot: a user who browses any file; the sources that
\* never reach the preview (repository bus, watcher, ticker) stay silent
NextPreview ==
    \/ UserInput
    \/ WorkerProgress
    \/ WorkerComplete
    \/ WorkerStartNext
    \/ IterFirst
    \/ IterInput
    \/ IterApp

SpecPreview == Init /\ [][NextPreview]_vars

\* the user opens one file, again and again, and never quits
UserOpensOneFile ==
    UserSends({cmd \in OneFileCommands(nloads + 1) : cmd.op = "load"})

\* run_app, loop: the consumer thread takes its next iteration
LoopStep ==
    \/ IterFirst
    \/ IterInput
    \/ IterGit
    \/ IterApp
    \/ IterNotify
    \/ IterSpinner

\* the multiplexer under sustained traffic: the loop never exits and, as the
\* consumer thread is scheduled, keeps iterating while an iteration is
\* possible; which ready channel a selection picks is left open
NextMux ==
    \/ UserOpensOneFile
    \/ WatcherSignal
    \/ GitNotification
    \/ Tick
    \/ WorkerSucceeds
    \/ LoopStep

SpecMux == Init /\ [][NextMux]_vars /\ WF_vars(LoopStep)

\* select_event, sel.select(): a selection that is fair among the ready
\* channels (no channel that stays ready is passed over for ever)
SelectFair ==
    /\ WF_vars(IterInput)
    /\ WF_vars(IterGit)
    /\ WF_vars(IterApp)
    /\ WF_vars(IterNotify)
    /\ WF_vars(IterSpinner)

\* the debounced watcher in front of the loop
NextWatcher ==
    \/ FsEvent
    \/ QuietTime
    \/ WatcherFires
    \/ Tick
    \/ IterFirst
    \/ IterNotify
    \/ IterSpinner

SpecWatcher == Init /\ [][NextWatcher]_vars

\* run_app from its first line, with a watcher that may fail to start and
\* senders that may go away
NextFailure ==
    \/ Setup
    \/ UserInputOneFile
    \/ WatcherSignal
    \/ Tick
    \/ SenderDropped
    \/ IterFirst
    \/ IterInput
    \/ IterNotify
    \/ IterSpinner
    \/ IterDisconnected

SpecFailure == InitSetup /\ [][NextFailure]_vars

\* the slot and its worker under a burst of spawns: job bodies terminate and
\* the worker is scheduled
NextJobs ==
    \/ UserBrowses
    \/ WorkerSucceeds
    \/ WorkerStartNext
    \/ IterFirst
    \/ IterInput
    \/ IterApp

SpecJobs ==
    /\ Init
    /\ [][NextJobs]_vars
    /\ WF_vars(WorkerSucceeds)
    /\ WF_vars(WorkerStartNext)

\* the two buses: the repository bus carries whatever its type admits, the
\* application bus what the highlight job of one opened file sends
NextBuses ==
    \/ UserOpensOneFile
    \/ GitNotificationOfAnyKind
    \/ WorkerSucceeds
    \/ IterFirst
    \/ IterInput
    \/ IterGit
    \/ IterApp

SpecBuses == Init /\ [][NextBuses]_vars

(* ----------------------------- text input ----------------------------- *)

\* a text input of any type, as constructed
InitText ==
    /\ Init
    /\ \E input_type \in InputTypes :
          comp = with_input_type(NewTextInput, input_type)

\* the line counters stay within the cap
WithinLines(c) == c.cur_line <= MaxLine /\ c.scroll_top <= MaxLine

\* the owner of the component shows it
TextShow ==
    /\ ~comp.visible
    /\ comp' = show(comp)
    /\ UNCHANGED loop_vars

\* the owner of the component sets its text
TextSetText ==
    /\ \E msg \in Msgs : comp' = set_text(comp, msg)
    /\ UNCHANGED loop_vars

\* the component is drawn
TextDraw ==
    /\ comp.visible
    /\ \E h \in FrameHeights : comp' = draw(comp, h)
    /\ UNCHANGED loop_vars

\* the component handles a key
TextKey(key) ==
    /\ comp.visible
    /\ WithinLines(KeyEvent(comp, key))
    /\ comp' = KeyEvent(comp, key)
    /\ UNCHANGED loop_vars

\* KeyCode::Left
KeyLeft == comp.visible /\ TextKey("Left")
\* KeyCode::Right
KeyRight == comp.visible /\ TextKey("Right")
\* KeyCode::Up if self.input_type == InputType::Multiline
KeyUp == comp.input_type = "Multiline" /\ TextKey("Up")
\* KeyCode::Down if self.input_type == InputType::Multiline
KeyDown == comp.input_type = "Multiline" /\ TextKey("Down")
\* KeyCode::Home
KeyHome == comp.visible /\ TextKey("Home")
\* KeyCode::End
KeyEnd == comp.visible /\ TextKey("End")

NextText ==
    \/ TextShow
    \/ TextSetText
    \/ TextDraw
    \/ KeyLeft
    \/ KeyRight
    \/ KeyUp
    \/ KeyDown
    \/ KeyHome
    \/ KeyEnd

SpecText == InitText /\ [][NextText]_vars

(* ------------------------- state functions ---------------------------- *)


Slot == app.preview.async_highlighting
\* the body of the job of generation g is executing
Executing(g) == \E job \in Slot.running : job.gen = g
Cur == app.preview.current_file
ShowsSyntax == IsSome(Cur) /\ Unwrap(Cur).content.kind = "syntax"
Shown == Unwrap(Cur).content.syntax

\* the step is a loop iteration that received from the named channel
TookInput == rx_input # << >> /\ rx_input' = Tail(rx_input)
TookGit == rx_git # << >> /\ rx_git' = Tail(rx_git)
TookApp == rx_app # << >> /\ rx_app' = Tail(rx_app)
TookNotify == rx_notify' = rx_notify - 1
TookTick == rx_spinner' = rx_spinner - 1
TookDone == TookApp /\ Head(rx_app) = "Done"
FirstIteration == first_update /\ ~first_update'
\* the notifications that tell of syntax highlighting, on either bus
HighlightNotes == {"Progress", "Done", "SyntaxHighlighting"}

\* the newline characters that start before the cursor
NewlinesBefore(c) ==
    Cardinality({k \in 1..Len(c.msg) :
                    /\ c.msg[k] = "\n"
                    /\ ByteLen(SubSeq(c.msg, 1, k - 1)) < c.cursor_position})

\* the spans of a drawn text, line after line
RECURSIVE Flatten(_)
Flatten(lines) ==
    IF lines = << >> THEN << >> ELSE lines[1] \o Flatten(Tail(lines))

\* the underlined spans of a drawn text
Underlined(lines) == SelectSeq(Flatten(lines), LAMBDA sp : sp.style.underlined)

\* the characters of the spans that are not underlined, with the line breaks
\* between the lines
RECURSIVE Concat(_)
Concat(spans) ==
    IF spans = << >> THEN << >>
    ELSE (IF spans[1].style.underlined THEN << >> ELSE spans[1].content)
             \o Concat(Tail(spans))
PlainText(lines) == Join([k \in 1..Len(lines) |-> Concat(lines[k])])

\* the cursor is at msg.len()
CursorAtEnd(c) == c.cursor_position = ByteLen(c.msg)
\* the character the cursor is on, as get_msg gives it
CursorStr(c) ==
    get_msg(c, c.cursor_position, Unwrap(next_char_position(c)))
\* the middle dot is drawn somewhere
HasDot(lines) ==
    \E k \in 1..Len(Flatten(lines)) : Flatten(lines)[k].content = << "dot" >>

(* ------------------------------ claims -------------------------------- *)

\* C1 (as claimed): the outcome of a job is never applied once a later job
\* was spawned on the slot: whenever highlighted content is shown, it is the
\* outcome of the job spawned last.
C1_SupersededNeverApplied ==
    ShowsSyntax => Shown.gen = last_spawned

\* C2: whenever the preview shows highlighted content, the highlight result's
\* path is the path of current_file.
C2_HighlightIsOfCurrentFile ==
    ShowsSyntax => Shown.path = Unwrap(Cur).path

\* C2 witness: the result for "a" was pulled while "b" is the current file,
\* and the preview shows b's plain content.
C2_Witness ==
    /\ trace.src = "app"
    /\ IsSome(trace.pulled)
    /\ Unwrap(trace.pulled).res = "ok"
    /\ Unwrap(trace.pulled).path = "a"
    /\ IsSome(Cur)
    /\ Unwrap(Cur).path = "b"
    /\ Unwrap(Cur).content.kind = "plain"

C4_OneShotConsumption ==
    [][ /\ TookDone => Slot'.last = None
        /\ (Slot.last = None /\ Slot'.last # None) =>
              /\ rx_app' = Append(rx_app, "Done")
              /\ Slot'.running # Slot.running ]_vars

\* C4 witness: a result was taken, a second Done waits, and no body is left
\* that could complete before it is handled.
C4_Witness ==
    /\ trace.src = "app"
    /\ IsSome(trace.pulled)
    /\ Slot.last = None
    /\ rx_app # << >>
    /\ Head(rx_app) = "Done"
    /\ ~IsPending(Slot)
    /\ Slot.next = None

C6_AppliedIffFreshAtPull ==
    [][ (TookDone /\ IsSome(Slot.last) /\ Unwrap(Slot.last).res = "ok") =>
          LET job == Unwrap(Slot.last)
          IN  IF IsSome(Cur) /\ Unwrap(Cur).path = job.path
              THEN Cur' = Some([path |-> job.path,
                                content |-> Highlighted(Unwrap(JobResult(job)))])
              ELSE Cur' = Cur ]_vars

\* C6 witness: a result is applied although the preview did not show its path
\* when the worker completed.
C6_Witness ==
    /\ trace.src = "app"
    /\ IsSome(trace.pulled)
    /\ Unwrap(trace.pulled).res = "ok"
    /\ Unwrap(trace.pulled).seen # Some(Unwrap(trace.pulled).path)
    /\ ShowsSyntax
    /\ Shown.gen = Unwrap(trace.pulled).gen

\* C7: while first_update is set no channel is received from; the iteration
\* that clears it handles Notify (app.update) and leaves all five channels as
\* they are; afterwards first_update stays cleared and an iteration receives
\* exactly one message from exactly one channel.
C7_Bootstrap ==
    [][ /\ first_update =>
              /\ Len(rx_input') >= Len(rx_input)
              /\ Len(rx_git') >= Len(rx_git)
              /\ Len(rx_app') >= Len(rx_app)
              /\ rx_notify' >= rx_notify
              /\ rx_spinner' >= rx_spinner
              /\ trace' # trace => ~first_update'
        /\ FirstIteration =>
              /\ UNCHANGED << rx_input, rx_git, rx_app, rx_notify, rx_spinner >>
              /\ trace'.src = "first"
              /\ "app.update" \in trace'.calls
        /\ ~first_update =>
              /\ ~first_update'
              /\ trace' # trace =>
                    /\ Cardinality({i \in 1..5 :
                          << TookInput, TookGit, TookApp, TookNotify,
                             TookTick >>[i]}) = 1
                    /\ TookInput \/ rx_input' = rx_input
                    /\ TookGit \/ rx_git' = rx_git
                    /\ TookApp \/ rx_app' = rx_app
                    /\ TookNotify \/ rx_notify' = rx_notify
                    /\ TookTick \/ rx_spinner' = rx_spinner ]_vars

\* C7 witness: the first iteration has run with nothing in any channel.
C7_Witness ==
    /\ trace.src = "first"
    /\ trace.calls = {"app.update", "draw", "spinner.set_state", "spinner.draw"}
    /\ rx_input = << >> /\ rx_git = << >> /\ rx_app = << >>
    /\ rx_notify = 0 /\ rx_spinner = 0

\* C8: an iteration on a spinner tick calls spinner.update and spinner.draw
\* only; the application, its slot, the loop's exit and the busy flag are
\* unchanged and the glyph advances by one.
C8_SpinnerFastPath ==
    [][ TookTick =>
          /\ app' = app
          /\ pc' = pc
          /\ spinner'.active = spinner.active
          /\ spinner'.idx = (spinner.idx + 1) % Len(SpinnerChars)
          /\ trace'.calls = {"spinner.update", "spinner.draw"} ]_vars

\* C8 witness: a tick was handled while a job was pending.
C8_Witness ==
    /\ trace.src = "spinner"
    /\ trace.pending
    /\ spinner.idx = 1

C14_DebounceCoalescing ==
    [][ /\ watcher'.raw > watcher.raw =>
              /\ rx_notify' = rx_notify
              /\ watcher'.quiet = 0
        /\ rx_notify' > rx_notify =>
              /\ rx_notify' = rx_notify + 1
              /\ watcher.raw >= 1
              /\ watcher.quiet = DebounceWindow
              /\ watcher'.raw = 0
              /\ watcher'.coalesced = watcher.raw
        /\ (watcher.raw = 0 /\ watcher'.raw = 0) =>
              rx_notify' <= rx_notify ]_vars

\* C14 witness: a burst of MaxBurst raw events was answered by one signal,
\* which waits in the channel, and no raw event has arrived since.
C14_Witness ==
    /\ watcher.coalesced = MaxBurst
    /\ watcher.raw = 0
    /\ rx_notify = 1
    /\ trace.src = "first"

\* C15: when select_event picks a disconnected channel the loop ends with an
\* error: no event is handled (the application, the spinner and the channels
\* are as they were), the process returns the error, and nothing is processed
\* afterwards.
C15_DisconnectIsFatal ==
    [][ /\ (pc = "loop" /\ trace'.src = "disconnected") =>
              /\ pc' = "error"
              /\ main_result' = "Err"
              /\ app' = app
              /\ spinner' = spinner
              /\ UNCHANGED << rx_input, rx_git, rx_app, rx_notify, rx_spinner >>
        /\ pc = "error" => UNCHANGED vars ]_vars

\* C15 witness: the loop ended on the disconnected input channel while a
\* watcher signal and a tick were still waiting.
C15_Witness ==
    /\ pc = "error"
    /\ trace.src = "disconnected"
    /\ disconnected = {"input"}
    /\ rx_notify > 0
    /\ rx_spinner > 0

\* C16 (as claimed): a watcher that could not be created leaves run_app
\* running its loop: run_app does not end with an error.
C16_WatcherFailureNotFatal ==
    watcher.state = "failed" => main_result # "Err"

\* C17 (as claimed): when update pulls the failed job of the current file,
\* the displayed content becomes an error diagnostic (a text that is not the
\* file's content).
C17_FailureShownInline ==
    [][ ( /\ TookDone
          /\ IsSome(Slot.last)
          /\ Unwrap(Slot.last).res = "fail"
          /\ IsSome(Cur)
          /\ Unwrap(Cur).path = Unwrap(Slot.last).path ) =>
          /\ IsSome(Cur')
          /\ Unwrap(Cur').content.kind = "plain"
          /\ Unwrap(Cur').content.text \notin Texts ]_vars

C20_NoTerminalState ==
    [][ /\ ( /\ TookInput
             /\ Head(rx_input).op = "load"
             /\ Head(rx_input).res # "err"
             /\ ~AlreadyLoaded(app.preview, Head(rx_input).path) ) =>
              /\ last_spawned' = Head(rx_input).id
              /\ IsPending(Slot')
              /\ Slot'.last = None
        /\ TookDone =>
              /\ Slot' = [Slot EXCEPT !.last = None]
              /\ (~IsPending(Slot) /\ Slot.next = None) =>
                    Slot' = [NewSlot EXCEPT !.progress = Slot.progress] ]_vars

\* C20 witness: a job executes that was spawned after the result of an
\* earlier job had completed (the spawn found the slot completed and not yet
\* pulled), and nothing of the earlier job is left in the slot.
C20_Witness ==
    /\ trace.src = "input"
    /\ IsSome(trace.discarded)
    /\ Unwrap(trace.discarded).gen = 1
    /\ Executing(2)
    /\ Slot.next = None

\* C21 (as claimed): the two notification domains are disjoint: no
\* syntax-highlighting notification travels on the repository bus, and an
\* event that carries one is tagged as coming from the application bus.
C21_DomainsDisjoint ==
    /\ \A i \in 1..Len(rx_git) : rx_git[i] \notin HighlightNotes
    /\ (trace.event.t = "AsyncEvent" /\ trace.event.ev.n \in HighlightNotes) =>
          trace.event.ev.bus = "App"

\* C22: when update handles Done and the pulled result is not for the current
\* file (its path differs, or no file is current), current_file is unchanged,
\* the result is gone from the slot and syntax_progress is empty.
C22_StaleResultDropped ==
    [][ ( /\ TookDone
          /\ IsSome(Slot.last)
          /\ \/ Cur = None
             \/ Unwrap(Cur).path # Unwrap(Slot.last).path ) =>
          /\ Cur' = Cur
          /\ Slot'.last = None
          /\ Slot' = TakeLast(Slot)
          /\ app'.preview.syntax_progress = None ]_vars

\* C22 witness: the result for "a" was pulled and dropped while "b" is shown
\* and its own job is executing; the progress is empty.
C22_Witness ==
    /\ trace.src = "app"
    /\ IsSome(trace.pulled)
    /\ Unwrap(trace.pulled).path = "a"
    /\ Unwrap(trace.pulled).res = "ok"
    /\ IsSome(Cur)
    /\ Unwrap(Cur) = [path |-> "b", content |-> Plain(tree_file_content("b"))]
    /\ Executing(2)
    /\ Slot.last = None
    /\ app.preview.syntax_progress = None

\* C23: a load of the path that current_file already has changes nothing in
\* the preview and spawns no job, whatever the item reads to and whatever the
\* content shown is.
C23_LoadSamePathIsNoOp ==
    [][ ( /\ TookInput
          /\ Head(rx_input).op = "load"
          /\ IsSome(Cur)
          /\ Unwrap(Cur).path = Head(rx_input).path ) =>
          /\ app'.preview = app.preview
          /\ last_spawned' = last_spawned ]_vars

\* C23 witness: the path whose load ended in the error text was loaded again
\* with an item that can be read, and the error text is still shown.
C23_Witness ==
    /\ trace.src = "input"
    /\ trace.event.ev.op = "load"
    /\ trace.event.ev.res = "t1"
    /\ IsSome(Cur)
    /\ Unwrap(Cur).path = trace.event.ev.path
    /\ Unwrap(Cur).content = ErrorText
    /\ last_spawned = 0

\* C24: while no file is current (after clear), a Done or Progress
\* notification leaves current_file empty, a Done consumes the result; only a
\* load sets current_file, and a load of a readable file then spawns a job,
\* the file shown before included.
C24_ClearedStaysCleared ==
    [][ /\ (Cur = None /\ TookApp) =>
              /\ Cur' = None
              /\ Head(rx_app) = "Done" => Slot'.last = None
        /\ (Cur = None /\ Cur' # None) =>
              /\ TookInput
              /\ Head(rx_input).op = "load"
              /\ Unwrap(Cur').path = Head(rx_input).path
        /\ (Cur = None /\ TookInput /\ Head(rx_input).op = "load"
              /\ Head(rx_input).res # "err") =>
              /\ last_spawned' = Head(rx_input).id
              /\ Unwrap(Cur').content = Plain(Head(rx_input).res) ]_vars

\* C24 witness: a result completed after clear() was pulled and discarded,
\* and no file is current.
C24_Witness ==
    /\ trace.src = "app"
    /\ IsSome(trace.pulled)
    /\ Unwrap(trace.pulled).res = "ok"
    /\ Unwrap(trace.pulled).seen = None
    /\ Cur = None
    /\ Slot.last = None

\* C25: the busy flag changes only in an iteration that handled a non-spinner
\* event, which calls spinner.set_state and leaves the flag equal to
\* any_work_pending() of the application as it is after the event; a spinner
\* tick makes no such call and a step of a worker leaves the spinner alone.
C25_BusyWrittenOnlyOnEvents ==
    [][ /\ spinner'.active # spinner.active =>
              /\ FirstIteration \/ TookInput \/ TookGit \/ TookApp \/ TookNotify
              /\ "spinner.set_state" \in trace'.calls
              /\ spinner'.active = AppAnyWorkPending(app')
        /\ TookTick =>
              /\ "spinner.set_state" \notin trace'.calls
              /\ spinner'.active = spinner.active
        /\ (app' # app /\ trace' = trace) => spinner' = spinner ]_vars

\* C25 witness: the job completed after the last event was handled and a tick
\* was handled since: nothing is pending, the Done notification waits and the
\* flag still says busy.
C25_Witness ==
    /\ trace.src = "spinner"
    /\ spinner.active
    /\ ~AppAnyWorkPending(app)
    /\ rx_app = << "Done" >>
    /\ IsSome(Slot.last)

\* C26: an iteration on the repository notification FinishUnchanged does not
\* call app.update_async and leaves the application as it is, but draws and
\* sets the busy flag; an iteration on any other AsyncEvent calls
\* app.update_async with that event.
C26_FinishUnchangedSkipsUpdate ==
    [][ /\ (TookGit /\ Head(rx_git) = "FinishUnchanged") =>
              /\ trace'.calls = {"draw", "spinner.set_state", "spinner.draw"}
              /\ app' = app
              /\ spinner'.active = AppAnyWorkPending(app)
        /\ (TookGit /\ Head(rx_git) # "FinishUnchanged") =>
              /\ trace'.calls = {"app.update_async", "draw",
                                 "spinner.set_state", "spinner.draw"}
              /\ app' = AppUpdateAsync(app, GitNote(Head(rx_git)))
        /\ TookApp =>
              /\ trace'.calls = {"app.update_async", "draw",
                                 "spinner.set_state", "spinner.draw"}
              /\ app' = AppUpdateAsync(app, AppNote(Head(rx_app))) ]_vars

\* C26 witness: FinishUnchanged was handled after the job completed and
\* before its Done notification: the iteration cleared the busy flag.
C26_Witness ==
    /\ trace.src = "git"
    /\ trace.event = AsyncEvent(GitNote("FinishUnchanged"))
    /\ "draw" \in trace.calls
    /\ last_spawned > 0
    /\ rx_app # << >>
    /\ ~spinner.active

C28_ReadFailureShowsErrorText ==
    [][ /\ ( /\ TookInput
             /\ Head(rx_input).op = "load"
             /\ Head(rx_input).res = "err"
             /\ ~AlreadyLoaded(app.preview, Head(rx_input).path) ) =>
              /\ last_spawned' = last_spawned
              /\ Slot' = Slot
              /\ app'.preview.syntax_progress = app.preview.syntax_progress
              /\ Cur' = Some([path |-> Head(rx_input).path,
                              content |-> ErrorText])
        /\ ( /\ TookApp
             /\ IsSome(Cur)
             /\ Unwrap(Cur).content = ErrorText
             /\ Cur' # Cur ) =>
              /\ Head(rx_app) = "Done"
              /\ IsSome(Slot.last)
              /\ Unwrap(Slot.last).path = Unwrap(Cur).path
              /\ Unwrap(Slot.last).res = "ok"
              /\ Cur' = Some([path |-> Unwrap(Cur).path,
                              content |->
                                  Highlighted(Unwrap(JobResult(Unwrap(Slot.last))))]) ]_vars

\* C28 witness: the read of "a" failed while the job spawned for "a" before
\* the preview was cleared is still executing and its progress is shown.
C28_Witness ==
    /\ trace.src = "input"
    /\ trace.event.ev.op = "load"
    /\ trace.event.ev.res = "err"
    /\ Cur = Some([path |-> "a", content |-> ErrorText])
    /\ \E job \in Slot.running : job.path = "a"
    /\ app.preview.syntax_progress = Some(0)
    /\ last_spawned < trace.event.ev.id

\* C29 (as claimed): syntax_progress is set in every state in which the job
\* spawned last, for the file that is current, is still executing or waiting
\* for the worker; the Done of a superseded job does not clear it.
C29_ProgressShownWhilePending ==
    ( /\ IsSome(Cur)
      /\ \E job \in Slot.running \cup
                    (IF IsSome(Slot.next) THEN {Unwrap(Slot.next)} ELSE {}) :
            /\ job.gen = last_spawned
            /\ job.path = Unwrap(Cur).path ) =>
        IsSome(app.preview.syntax_progress)

\* C30 (as claimed): set_text places the cursor at position 0, and whenever
\* the cursor is strictly before the end of the text, incr_cursor followed by
\* decr_cursor leaves cursor_position as it was.
C30_IncrDecrRestoresCursor ==
    /\ \A msg \in Msgs : set_text(comp, msg).cursor_position = 0
    /\ comp.cursor_position < ByteLen(comp.msg) =>
          decr_cursor(incr_cursor(comp)).cursor_position = comp.cursor_position

\* C31 (as claimed): in a multi-line text input whose cursor has k >= 1
\* newline characters before it, line_up_cursor leaves the cursor with
\* exactly k-1 newline characters before it and within [0, msg.len()].
C31_LineUpMovesUpOneLine ==
    (comp.input_type = "Multiline" /\ NewlinesBefore(comp) >= 1) =>
        /\ NewlinesBefore(line_up_cursor(comp)) = NewlinesBefore(comp) - 1
        /\ line_up_cursor(comp).cursor_position <= ByteLen(comp.msg)

\* C32 (as claimed): in a multi-line text input whose cursor is on a line k
\* that is not the last (k newline characters before it, more after),
\* line_down_cursor leaves the cursor with exactly k+1 newline characters
\* before it and within [0, msg.len()].
C32_LineDownMovesDownOneLine ==
    (comp.input_type = "Multiline"
        /\ NewlinesBefore(comp) < Newlines(comp.msg)) =>
        /\ NewlinesBefore(line_down_cursor(comp)) = NewlinesBefore(comp) + 1
        /\ line_down_cursor(comp).cursor_position <= ByteLen(comp.msg)

=============================================================================
